---- MODULE Spec2Model ----
(***************************************************************************)
(* Model of the buffer pool, the Stream mapping cache and the Raspberry Pi *)
(* pipeline handler of libcamera.                                          *)
(*                                                                         *)
(*   Spec      the Stream: createBuffer, mapBuffer, unmapBuffer,           *)
(*             createBuffers, destroyBuffers        (stream.cpp)           *)
(*   SpecPipe  the pipeline handler: the intermediate pool, request        *)
(*             queuing and the terminal completion callback                *)
(*                                                  (raspberrypi.cpp)      *)
(*   SpecCam   the camera operations: configure, start, stop and           *)
(*             queueRequestDevice             (raspberrypi.cpp)            *)
(*   SpecChain a configured camera running: start, stop, request queuing   *)
(*             and the three buffer-ready callbacks (raspberrypi.cpp)      *)
(*   SpecChainFair  SpecChain with every queued buffer eventually reported *)
(*   SpecTimer the event dispatcher waiting for a Timer, with an external  *)
(*             signal interrupting the wait  (test/event-dispatcher.cpp)   *)
(*   SpecConfig  the camera configuration: addConfiguration and validate   *)
(*                                                  (raspberrypi.cpp)      *)
(***************************************************************************)
EXTENDS Integers, Sequences, FiniteSets, TLC

(***************************************************************************)
(* Bounds of the model.                                                    *)
(***************************************************************************)
\* largest count handed to Stream::createBuffers
MaxCount == 2
\* number of FrameBuffer objects the application may hold
MaxBuffers == 2
\* number of Requests the application creates
MaxRequests == 2
\* number of raw buffers unicam_->queueAllBuffers() hands back at most
MaxRaw == 1
\* number of Requests the application queues on a camera it started
MaxQueued == 1
\* number of stream configurations an application puts into a configuration
MaxStreams == 2

(***************************************************************************)
(* Program constants.                                                      *)
(***************************************************************************)
\* errno value returned (negated) by mapBuffer on an empty cache
ENOMEM == 12
\* FrameBuffer(unsigned int index = -1): the default index. As an unsigned int
\* it is UINT_MAX; it is kept as -1 here and compared as unsigned by ULess.
NoIndex == -1

\* errno value returned (negated) by queueRequestDevice
ENOENT == 2
\* cfg.bufferCount as validate() sets it
BufferCount == 4

InternalMemory == "InternalMemory"
ExternalMemory == "ExternalMemory"
MemoryType == {InternalMemory, ExternalMemory}

\* std::array<int, 3>{ -1, -1, -1 }: the key of a seeded cache entry
NoDmabufs == <<-1, -1, -1>>

\* The descriptor sets an application hands in. <<4, -1, 3>> has a hole: the
\* plane loop of mapBuffer stops at the first -1, the cache key keeps all 3.
DmabufSets == {<<3, 4, -1>>, <<4, -1, 3>>}

BufferIds == 1..MaxBuffers
NoBuffer == [stream_ |-> "none", index_ |-> NoIndex, dmabuf_ |-> <<>>, mapped |-> FALSE]

VARIABLES
    memoryType_,   \* Stream::memoryType_
    bufferPool_,   \* Stream::bufferPool_.buffers_: Seq of planes (Seq of Plane)
    bufferCache_,  \* Stream::bufferCache_: Seq of [first: dmabufs, second: index]
    cacheRank,     \* ghost: cacheRank[i] = 1 + number of cache entries inserted
                   \* before entry i that are still in the cache
    frameBuffers,  \* the FrameBuffer objects created so far, by id
    fault,         \* TRUE once the process died on an out-of-range pool access
    last           \* ghost: the last call and what it returned

streamVars == <<memoryType_, bufferPool_, bufferCache_, cacheRank, frameBuffers,
                fault, last>>

VARIABLES
    bayerBuffers_, \* RPiCameraData::bayerBuffers_: the intermediate pool
    allocated,     \* the camera holds buffers (exportFrameBuffers was called,
                   \* freeFrameBuffers not yet)
    deviceBuffers, \* per video device: it holds buffers (exported or imported)
    requests,      \* per request: where it is, and the status of its buffer
    captureQueue,  \* the requests whose buffer is queued on the ISP capture
    completions,   \* per request: how often its completion was signalled
    pipeLast       \* ghost: the last pipeline-handler call and its result

pipeVars == <<bayerBuffers_, allocated, deviceBuffers, requests, captureQueue,
              completions, pipeLast>>

VARIABLES
    camState,      \* the state of the camera: Stopped, Configured or Running
    streaming,     \* per video device: it is streaming
    deviceFormat,  \* per video device: the format it holds
    rawBuffers_,   \* RPiCameraData::rawBuffers_: the raw buffers the handler owns
    unicamQueue,   \* the raw buffers queued on unicam
    outputQueue    \* the raw buffers queued on the ISP output

VARIABLES
    config_,       \* CameraConfiguration::config_: Seq of StreamConfiguration
    validateLast   \* ghost: the last call on the configuration, the status
                   \* validate() returned and config_ as it was before the call

configVars == <<config_, validateLast>>

camVars == <<camState, streaming, deviceFormat, rawBuffers_, unicamQueue, outputQueue,
             configVars>>

VARIABLES
    now,           \* the monotonic clock, in ms
    phase,         \* where the test is: idle, armed, waiting or returned
    deadline,      \* Timer: the deadline start() armed
    alarm,         \* the time the pending external signal fires, NoTime for none
    waitUntil,     \* the time the wait the dispatcher is in times out
    timerLast      \* ghost: when the timer was started, when the wait was
                   \* interrupted, when the timer fired, when processEvents returned

timerVars == <<now, phase, deadline, alarm, waitUntil, timerLast>>

vars == <<streamVars, pipeVars, camVars, timerVars>>

(***************************************************************************)
(* Plane, BufferMemory, BufferPool                                         *)
(***************************************************************************)
\* A Plane after emplace_back() and setDmabuf(fd, 0): nothing mapped yet.
NewPlane(fd) == [fd |-> fd, length |-> 0, mapped |-> FALSE]

BufferPool_createBuffers(buffers_, count) ==
    [i \in 1..count |-> IF i <= Len(buffers_) THEN buffers_[i] ELSE <<>>]

BufferPool_destroyBuffers(buffers_) == BufferPool_createBuffers(buffers_, 0)

BufferPool_count(buffers_) == Len(buffers_)

\* a < b on unsigned int, where -1 stands for UINT_MAX
ULess(a, b) == a >= 0 /\ a < b

(***************************************************************************)
(* Stream::mapBuffer and Stream::unmapBuffer                               *)
(***************************************************************************)
\* (mutant) the search returns the last matching entry
FindIf_LastMatch(cache, dmabufs) ==
    IF \E i \in 1..Len(cache) : cache[i].first = dmabufs
    THEN CHOOSE i \in 1..Len(cache) :
            /\ cache[i].first = dmabufs
            /\ \A j \in (i + 1)..Len(cache) : cache[j].first # dmabufs
    ELSE 0

\* std::find_if over the cache: the position of the first entry whose key
\* equals dmabufs, 0 for end().
FindIf(cache, dmabufs) ==
    IF \E i \in 1..Len(cache) : cache[i].first = dmabufs
    THEN CHOOSE i \in 1..Len(cache) :
            /\ cache[i].first = dmabufs
            /\ \A j \in 1..(i - 1) : cache[j].first # dmabufs
    ELSE 0

\* bufferCache_.erase(map)
Erase(seq, pos) == [i \in 1..(Len(seq) - 1) |-> IF i < pos THEN seq[i] ELSE seq[i + 1]]

\* The plane loop of mapBuffer: one fresh Plane per descriptor, up to the
\* first -1.
RECURSIVE PlanesFrom(_, _)
PlanesFrom(dmabufs, i) ==
    IF i > Len(dmabufs) \/ dmabufs[i] = -1
    THEN <<>>
    ELSE <<NewPlane(dmabufs[i])>> \o PlanesFrom(dmabufs, i + 1)

\* (helper of the mutants below) mapBuffer taking the cache entry at position
\* map, with or without erasing it and rebuilding the planes.
MapVariant(cache, pool, dmabufs, map, hit, erase, remap) ==
    LET index == cache[map].second
        inPool == ULess(index, Len(pool))
    IN  [ret |-> index,
         cache |-> IF erase THEN Erase(cache, map) ELSE cache,
         pool |-> IF inPool /\ remap
                  THEN [pool EXCEPT ![index + 1] = PlanesFrom(dmabufs, 1)]
                  ELSE pool,
         hit |-> hit, pos |-> map, oob |-> ~inPool]

\* (mutant) the chosen entry stays in the cache
Stream_mapBuffer_NoErase(cache, pool, dmabufs) ==
    IF cache = <<>>
    THEN [ret |-> -ENOMEM, cache |-> cache, pool |-> pool,
          hit |-> FALSE, pos |-> 0, oob |-> FALSE]
    ELSE LET found == FindIf(cache, dmabufs)
         IN  MapVariant(cache, pool, dmabufs, IF found = 0 THEN 1 ELSE found,
                   found # 0, FALSE, TRUE)

\* (mutant) no check for an empty cache: slot 0 is handed out
Stream_mapBuffer_NoEmptyCheck(cache, pool, dmabufs) ==
    LET c == IF cache = <<>> THEN <<[first |-> NoDmabufs, second |-> 0]>> ELSE cache
        found == FindIf(c, dmabufs)
    IN  MapVariant(c, pool, dmabufs, IF found = 0 THEN 1 ELSE found, found # 0, TRUE, TRUE)

\* (mutant) a miss takes the newest entry
Stream_mapBuffer_EvictNewest(cache, pool, dmabufs) ==
    IF cache = <<>>
    THEN [ret |-> -ENOMEM, cache |-> cache, pool |-> pool,
          hit |-> FALSE, pos |-> 0, oob |-> FALSE]
    ELSE LET found == FindIf(cache, dmabufs)
         IN  MapVariant(cache, pool, dmabufs, IF found = 0 THEN Len(cache) ELSE found,
                   found # 0, TRUE, TRUE)

\* (mutant) a hit keeps the planes of the slot as they are
Stream_mapBuffer_HitKeepsPlanes(cache, pool, dmabufs) ==
    IF cache = <<>>
    THEN [ret |-> -ENOMEM, cache |-> cache, pool |-> pool,
          hit |-> FALSE, pos |-> 0, oob |-> FALSE]
    ELSE LET found == FindIf(cache, dmabufs)
         IN  MapVariant(cache, pool, dmabufs, IF found = 0 THEN 1 ELSE found,
                   found # 0, TRUE, found = 0)

\* Stream::mapBuffer. ret is the value returned; oob says that the slot index
\* taken from the cache is not an index of the pool, so that
\* bufferPool_.buffers()[index] is an out-of-range access.
Stream_mapBuffer(cache, pool, dmabufs) ==
    IF cache = <<>>
    THEN [ret |-> -ENOMEM, cache |-> cache, pool |-> pool,
          hit |-> FALSE, pos |-> 0, oob |-> FALSE]
    ELSE LET found == FindIf(cache, dmabufs)
             map == IF found = 0 THEN 1 ELSE found
             index == cache[map].second
             inPool == ULess(index, BufferPool_count(pool))
         IN  [ret |-> index,
              cache |-> Erase(cache, map),
              pool |-> IF inPool
                       THEN [pool EXCEPT ![index + 1] = PlanesFrom(dmabufs, 1)]
                       ELSE pool,
              hit |-> found # 0, pos |-> map, oob |-> ~inPool]

\* Stream::unmapBuffer
Stream_unmapBuffer(cache, buffer) ==
    Append(cache, [first |-> buffer.dmabuf_, second |-> buffer.index_])

(***************************************************************************)
(* Stream::createBuffers, Stream::destroyBuffers, Stream::createBuffer     *)
(***************************************************************************)
\* (mutant) only the last slot is released
Stream_destroyBuffers_PopBack(s) ==
    [s EXCEPT !.pool = IF s.pool = <<>> THEN <<>> ELSE SubSeq(s.pool, 1, Len(s.pool) - 1)]

\* Stream::destroyBuffers: only the pool is touched.
Stream_destroyBuffers(s) ==
    [s EXCEPT !.pool = BufferPool_destroyBuffers(s.pool)]

\* (mutant) the cache is seeded from the last slot down
Stream_createBuffers_SeedDescending(s, memory, count) ==
    LET d == Stream_destroyBuffers(s)
        pool == BufferPool_createBuffers(d.pool, count)
    IN  IF count = 0 THEN d
        ELSE IF memory = InternalMemory
        THEN [d EXCEPT !.memoryType = memory, !.pool = pool]
        ELSE [memoryType |-> memory, pool |-> pool,
              cache |-> [i \in 1..BufferPool_count(pool) |->
                            [first |-> NoDmabufs,
                             second |-> BufferPool_count(pool) - i]]]

\* Stream::createBuffers(memory, count) on the stream state
\* s = [memoryType, pool, cache].
Stream_createBuffers(s, memory, count) ==
    LET d == Stream_destroyBuffers(s)
        pool == BufferPool_createBuffers(d.pool, count)
    IN  IF count = 0 THEN d
        ELSE IF memory = InternalMemory
        THEN [d EXCEPT !.memoryType = memory, !.pool = pool]
        ELSE [memoryType |-> memory, pool |-> pool,
              cache |-> [i \in 1..BufferPool_count(pool) |->
                            [first |-> NoDmabufs, second |-> i - 1]]]

\* (mutant) the range check lets index == count through
Stream_createBufferIndex_OffByOne(memoryType, pool, index) ==
    IF memoryType # InternalMemory THEN NoBuffer
    ELSE IF ~ULess(index, BufferPool_count(pool) + 1) THEN NoBuffer
    ELSE [stream_ |-> "this", index_ |-> index, dmabuf_ |-> <<>>, mapped |-> FALSE]

\* Stream::createBuffer(unsigned int index): the FrameBuffer, or NoBuffer for
\* nullptr. The descriptors are not set by this overload.
Stream_createBufferIndex(memoryType, pool, index) ==
    IF memoryType # InternalMemory THEN NoBuffer
    ELSE IF ~ULess(index, BufferPool_count(pool)) THEN NoBuffer
    ELSE [stream_ |-> "this", index_ |-> index, dmabuf_ |-> <<>>, mapped |-> FALSE]

\* Stream::createBuffer(const std::array<int, 3> &fds)
Stream_createBufferFds(memoryType, fds) ==
    IF memoryType # ExternalMemory THEN NoBuffer
    ELSE [stream_ |-> "this", index_ |-> NoIndex, dmabuf_ |-> fds, mapped |-> FALSE]

StreamState == [memoryType |-> memoryType_, pool |-> bufferPool_, cache |-> bufferCache_]

(***************************************************************************)
(* The Stream as a state machine. The caller of mapBuffer and unmapBuffer  *)
(* is the camera: it maps a buffer when its request is queued, stores the  *)
(* returned slot in the buffer, and unmaps it when the request completes.  *)
(***************************************************************************)
Call(op, n, fds, buf, ret, hit, rank, oob) ==  \* ret: an int, or a FrameBuffer
    [op |-> op, again |-> (last.op = op /\ last.fds = fds), n |-> n, fds |-> fds,
     buf |-> buf,
     ret |-> ret, hit |-> hit, rank |-> rank, oob |-> oob]

\* The lowest unused FrameBuffer id, 0 when all are in use.
FreeId ==
    IF \E b \in BufferIds : frameBuffers[b] = NoBuffer
    THEN CHOOSE b \in BufferIds :
            /\ frameBuffers[b] = NoBuffer
            /\ \A c \in BufferIds : c < b => frameBuffers[c] # NoBuffer
    ELSE 0

\* The caller keeps the slot returned by mapBuffer in the buffer
\* (FrameBuffer::index_ is public) and holds the buffer as checked out.
CallerBindIndex(buffer, ret) ==
    IF ret >= 0 THEN [buffer EXCEPT !.index_ = ret, !.mapped = TRUE] ELSE buffer

\* The caller forgets the slot of a buffer whose checkout ended.
CallerRelease(buffer) == [buffer EXCEPT !.index_ = NoIndex, !.mapped = FALSE]

\* Checkouts end when the slots they refer to are discarded.
DropCheckouts(fbs) == [b \in BufferIds |-> CallerRelease(fbs[b])]

Outstanding == {b \in BufferIds : frameBuffers[b].mapped}

StreamInit ==
    /\ memoryType_ \in MemoryType      \* Stream::Stream() leaves it unset
    /\ bufferPool_ = <<>>
    /\ bufferCache_ = <<>>
    /\ cacheRank = <<>>
    /\ frameBuffers = [b \in BufferIds |-> NoBuffer]
    /\ fault = FALSE
    /\ last = [op |-> "init", again |-> FALSE, n |-> 0, fds |-> <<>>, buf |-> 0,
               ret |-> 0, hit |-> FALSE, rank |-> 0, oob |-> FALSE]

\* createBuffer(index): the application keeps the returned buffer; it is never
\* handed to mapBuffer, which is for External streams.
CreateBufferIndex(index) ==
    /\ ~fault
    /\ last' = Call("createBufferIndex", index, <<>>, 0,
                    Stream_createBufferIndex(memoryType_, bufferPool_, index),
                    FALSE, 0, FALSE)
    /\ UNCHANGED <<memoryType_, bufferPool_, bufferCache_, cacheRank, frameBuffers,
                   fault>>
    /\ UNCHANGED <<pipeVars, camVars, timerVars>>

\* createBuffer(fds): the application keeps the returned buffer under the
\* lowest unused id.
CreateBufferFds(fds) ==
    LET b == Stream_createBufferFds(memoryType_, fds)
        id == IF b = NoBuffer THEN 0 ELSE FreeId
    IN  /\ ~fault
        /\ b # NoBuffer => id # 0
        /\ frameBuffers' = IF id = 0 THEN frameBuffers
                           ELSE [frameBuffers EXCEPT ![id] = b]
        /\ last' = Call("createBufferFds", 0, fds, id, b, FALSE, 0, FALSE)
        /\ UNCHANGED <<memoryType_, bufferPool_, bufferCache_, cacheRank, fault>>
        /\ UNCHANGED <<pipeVars, camVars, timerVars>>

\* mapBuffer(buffer) for a buffer that is not checked out. An out-of-range
\* pool access is undefined behaviour: the process dies on it, or it goes on
\* with the pool as it was.
MapBuffer(b, dies) ==
    LET fb == frameBuffers[b]
        r == Stream_mapBuffer(bufferCache_, bufferPool_, fb.dmabuf_)
        rank == IF r.pos \in 1..Len(cacheRank) THEN cacheRank[r.pos] ELSE 0
    IN  /\ ~fault
        /\ memoryType_ = ExternalMemory          \* ASSERT
        /\ fb # NoBuffer /\ fb.dmabuf_ \in DmabufSets /\ ~fb.mapped
        /\ dies => r.oob
        /\ IF dies
           THEN /\ fault' = TRUE
                /\ last' = Call("mapBuffer", 0, fb.dmabuf_, b, 0, r.hit, rank, TRUE)
                /\ UNCHANGED <<bufferPool_, bufferCache_, cacheRank, frameBuffers>>
           ELSE /\ bufferCache_' = r.cache
                /\ bufferPool_' = r.pool
                /\ cacheRank' = IF Len(r.cache) = Len(cacheRank) THEN cacheRank
                                ELSE [i \in 1..(Len(cacheRank) - 1) |->
                                        LET x == IF i < r.pos THEN cacheRank[i]
                                                 ELSE cacheRank[i + 1]
                                        IN  IF x > rank THEN x - 1 ELSE x]
                /\ frameBuffers' = [frameBuffers EXCEPT ![b] = CallerBindIndex(fb, r.ret)]
                /\ last' = Call("mapBuffer", 0, fb.dmabuf_, b, r.ret, r.hit, rank, r.oob)
                /\ UNCHANGED fault
        /\ UNCHANGED memoryType_
        /\ UNCHANGED <<pipeVars, camVars, timerVars>>

\* unmapBuffer(buffer) for a buffer that is checked out.
UnmapBuffer(b) ==
    LET fb == frameBuffers[b]
    IN  /\ ~fault
        /\ memoryType_ = ExternalMemory          \* ASSERT
        /\ fb # NoBuffer /\ fb.mapped
        /\ bufferCache_' = Stream_unmapBuffer(bufferCache_, fb)
        /\ cacheRank' = Append(cacheRank, Len(cacheRank) + 1)
        /\ frameBuffers' = [frameBuffers EXCEPT ![b] = CallerRelease(fb)]
        /\ last' = Call("unmapBuffer", 0, fb.dmabuf_, b, 0, FALSE, 0, FALSE)
        /\ UNCHANGED <<memoryType_, bufferPool_, fault>>
        /\ UNCHANGED <<pipeVars, camVars, timerVars>>

CreateBuffers(memory, count) ==
    LET s == Stream_createBuffers(StreamState, memory, count)
    IN  /\ ~fault
        /\ memoryType_' = s.memoryType
        /\ bufferPool_' = s.pool
        /\ bufferCache_' = s.cache
        /\ cacheRank' = IF count > 0 /\ memory = ExternalMemory
                        THEN [i \in 1..Len(s.cache) |-> i]
                        ELSE cacheRank
        /\ frameBuffers' = DropCheckouts(frameBuffers)
        /\ last' = Call("createBuffers", count, <<>>, 0, 0, FALSE, 0, FALSE)
        /\ UNCHANGED fault
        /\ UNCHANGED <<pipeVars, camVars, timerVars>>

DestroyBuffers ==
    LET s == Stream_destroyBuffers(StreamState)
    IN  /\ ~fault
        /\ memoryType_' = s.memoryType
        /\ bufferPool_' = s.pool
        /\ bufferCache_' = s.cache
        /\ frameBuffers' = DropCheckouts(frameBuffers)
        /\ last' = Call("destroyBuffers", 0, <<>>, 0, 0, FALSE, 0, FALSE)
        /\ UNCHANGED <<cacheRank, fault>>
        /\ UNCHANGED <<pipeVars, camVars, timerVars>>

\* Plane::mem() on every plane of one slot: the first access to a plane's
\* memory creates its mapping.
PlaneMem(i) ==
    /\ ~fault
    /\ i \in 1..Len(bufferPool_)
    /\ \E p \in 1..Len(bufferPool_[i]) : ~bufferPool_[i][p].mapped
    /\ bufferPool_' = [bufferPool_ EXCEPT
                         ![i] = [p \in 1..Len(@) |-> [@[p] EXCEPT !.mapped = TRUE]]]
    /\ last' = Call("mem", i - 1, <<>>, 0, 0, FALSE, 0, FALSE)
    /\ UNCHANGED <<memoryType_, bufferCache_, cacheRank, frameBuffers, fault>>
    /\ UNCHANGED <<pipeVars, camVars, timerVars>>

StreamNext ==
    \/ \E index \in 0..MaxCount : CreateBufferIndex(index)
    \/ \E fds \in DmabufSets : CreateBufferFds(fds)
    \/ \E b \in BufferIds, dies \in BOOLEAN : MapBuffer(b, dies)
    \/ \E b \in BufferIds : UnmapBuffer(b)
    \/ \E memory \in MemoryType, count \in 0..MaxCount : CreateBuffers(memory, count)
    \/ DestroyBuffers
    \/ \E i \in 1..MaxCount : PlaneMem(i)

(***************************************************************************)
(* The pipeline handler (raspberrypi.cpp): the intermediate pool, request  *)
(* queuing and the completion callback of the terminal stage.              *)
(***************************************************************************)
Devices == {"unicam", "output", "capture"}
NoDevice == "none"
RequestIds == 1..MaxRequests
Terminal == {"Success", "Error", "Cancelled"}

\* V4L2VideoDevice::exportBuffers(&pool): the device ties one buffer of its
\* own memory to every slot of the pool.
DeviceExport(buffers_) ==
    [i \in 1..Len(buffers_) |-> <<[fd |-> 0, length |-> 0, mapped |-> TRUE]>>]

\* The three allocation steps of exportFrameBuffers after the pool is
\* created; failing names the device whose call fails.
\* p = [pool, devs, ret].
ExportSteps(pool, devs, failing) ==
    IF failing = "unicam" THEN [pool |-> pool, devs |-> devs, ret |-> -1]
    ELSE LET tied == DeviceExport(pool)
             d1 == [devs EXCEPT !["unicam"] = TRUE]
         IN  IF failing = "output" THEN [pool |-> tied, devs |-> d1, ret |-> -1]
             ELSE LET d2 == [d1 EXCEPT !["output"] = TRUE]
                  IN  IF failing = "capture"
                      THEN [pool |-> tied, devs |-> d2, ret |-> -1]
                      ELSE [pool |-> tied, devs |-> [d2 EXCEPT !["capture"] = TRUE],
                            ret |-> 0]

\* PipelineHandlerRPi::exportFrameBuffers
ExportFrameBuffers(failing) ==
    LET created == BufferPool_createBuffers(bayerBuffers_, BufferCount)
        r == ExportSteps(created, deviceBuffers, failing)
    IN  /\ ~allocated
        /\ bayerBuffers_' = r.pool
        /\ deviceBuffers' = r.devs
        /\ allocated' = (r.ret = 0)
        /\ pipeLast' = [op |-> "exportFrameBuffers", ret |-> r.ret, created |-> created,
                        req |-> 0, log |-> <<>>, status |-> "none",
                        again |-> pipeLast.op = "exportFrameBuffers"]
        /\ UNCHANGED <<requests, captureQueue, completions>>
        /\ UNCHANGED <<streamVars, camVars, timerVars>>

\* The record of a releaseBuffers call on device d.
Release(d, ok) == [dev |-> d, call |-> "releaseBuffers", ok |-> ok]

\* PipelineHandlerRPi::freeFrameBuffers: [pool, devs] afterwards, and the log
\* of the release calls made. failing: the device whose release fails; it
\* keeps its buffers.
FreeSteps(pool, devs, failing) ==
    IF failing = "unicam"
    THEN [pool |-> pool, devs |-> devs, log |-> <<Release("unicam", FALSE)>>]
    ELSE LET d1 == [devs EXCEPT !["unicam"] = FALSE]
             l1 == <<Release("unicam", TRUE)>>
         IN  IF failing = "output"
             THEN [pool |-> pool, devs |-> d1,
                   log |-> Append(l1, Release("output", FALSE))]
             ELSE LET d2 == [d1 EXCEPT !["output"] = FALSE]
                      l2 == Append(l1, Release("output", TRUE))
                  IN  IF failing = "capture"
                      THEN [pool |-> pool, devs |-> d2,
                            log |-> Append(l2, Release("capture", FALSE))]
                      ELSE [pool |-> BufferPool_destroyBuffers(pool),
                            devs |-> [d2 EXCEPT !["capture"] = FALSE],
                            log |-> Append(l2, Release("capture", TRUE))]

FreeFrameBuffers(failing) ==
    LET r == FreeSteps(bayerBuffers_, deviceBuffers, failing)
    IN  /\ allocated
        /\ bayerBuffers_' = r.pool
        /\ deviceBuffers' = r.devs
        /\ allocated' = FALSE
        /\ pipeLast' = [op |-> "freeFrameBuffers", ret |-> 0, created |-> <<>>,
                        req |-> 0, log |-> r.log, status |-> "none",
                        again |-> pipeLast.op = "freeFrameBuffers"]
        /\ UNCHANGED <<requests, captureQueue, completions>>
        /\ UNCHANGED <<streamVars, camVars, timerVars>>

\* PipelineHandler::queueRequest: the request is recorded as queued.
PipelineHandler_queueRequest(reqs, r) == [reqs EXCEPT ![r].state = "queued"]

\* (mutant) the buffer of the request is queued on unicam, the head of the
\* chain, as raw buffer MaxRaw + r
QueueRequestDevice_OnFirstStage(r, hasBuffer, enqueued) ==
    LET ret == IF ~hasBuffer THEN -ENOENT ELSE IF ~enqueued THEN -1 ELSE 0
    IN  /\ requests[r].state = "new"
        /\ IF ret = 0
           THEN /\ unicamQueue' = unicamQueue \cup {MaxRaw + r}
                /\ requests' = PipelineHandler_queueRequest(requests, r)
           ELSE UNCHANGED <<unicamQueue, requests>>
        /\ pipeLast' = [op |-> "queueRequestDevice", ret |-> ret, created |-> <<>>,
                        req |-> r,
                        log |-> IF hasBuffer
                                THEN <<[dev |-> "capture", call |-> "queueBuffer",
                                        ok |-> enqueued]>>
                                ELSE <<>>,
                        status |-> "none",
                        again |-> pipeLast.op = "queueRequestDevice"]
        /\ UNCHANGED <<bayerBuffers_, allocated, deviceBuffers, completions, captureQueue>>
        /\ UNCHANGED <<camState, streaming, deviceFormat, rawBuffers_, outputQueue>>
        /\ UNCHANGED configVars
        /\ UNCHANGED <<streamVars, timerVars>>

\* (mutant) the request is recorded as queued before its buffer is enqueued
QueueRequestDevice_RecordsFirst(r, hasBuffer, enqueued) ==
    LET ret == IF ~hasBuffer THEN -ENOENT ELSE IF ~enqueued THEN -1 ELSE 0
    IN  /\ requests[r].state = "new"
        /\ requests' = IF hasBuffer THEN PipelineHandler_queueRequest(requests, r)
                       ELSE requests
        /\ captureQueue' = IF ret = 0 THEN Append(captureQueue, r) ELSE captureQueue
        /\ pipeLast' = [op |-> "queueRequestDevice", ret |-> ret, created |-> <<>>,
                        req |-> r,
                        log |-> IF hasBuffer
                                THEN <<[dev |-> "capture", call |-> "queueBuffer",
                                        ok |-> enqueued]>>
                                ELSE <<>>,
                        status |-> "none",
                        again |-> pipeLast.op = "queueRequestDevice"]
        /\ UNCHANGED <<bayerBuffers_, allocated, deviceBuffers, completions>>
        /\ UNCHANGED <<streamVars, camVars, timerVars>>

\* PipelineHandlerRPi::queueRequestDevice for a request the application has
\* not queued yet; hasBuffer: request->findBuffer(stream) finds a buffer;
\* enqueued: queueBufferrpi succeeds.
QueueRequestDevice(r, hasBuffer, enqueued) ==
    LET ret == IF ~hasBuffer THEN -ENOENT ELSE IF ~enqueued THEN -1 ELSE 0
    IN  /\ requests[r].state = "new"
        /\ IF ret = 0
           THEN /\ captureQueue' = Append(captureQueue, r)
                /\ requests' = PipelineHandler_queueRequest(requests, r)
           ELSE UNCHANGED <<captureQueue, requests>>
        /\ pipeLast' = [op |-> "queueRequestDevice", ret |-> ret, created |-> <<>>,
                        req |-> r,
                        log |-> IF hasBuffer
                                THEN <<[dev |-> "capture", call |-> "queueBuffer",
                                        ok |-> enqueued]>>
                                ELSE <<>>,
                        status |-> "none",
                        again |-> pipeLast.op = "queueRequestDevice"]
        /\ UNCHANGED <<bayerBuffers_, allocated, deviceBuffers, completions>>
        /\ UNCHANGED <<streamVars, camVars, timerVars>>

\* PipelineHandler::completeBuffer: the buffer of the request is retired.
\* The device has set status, the terminal status of the buffer.
\* p = [requests, completions].
PipelineHandler_completeBuffer(p, r, status) ==
    [p EXCEPT !.requests[r].status = status]

\* PipelineHandler::completeRequest: the request is complete when every one
\* of its buffers has a terminal status, and its completion is signalled.
PipelineHandler_completeRequest(p, r) ==
    IF p.requests[r].status \in Terminal /\ p.requests[r].state = "queued"
    THEN [requests |-> [p.requests EXCEPT ![r].state = "complete"],
          completions |-> [p.completions EXCEPT ![r] = @ + 1]]
    ELSE p

\* (mutant) the request is evaluated before its buffer is retired
RPiCameraData_ispCaptureReady_RequestFirst(p, r, status) ==
    PipelineHandler_completeBuffer(PipelineHandler_completeRequest(p, r), r, status)

\* (mutant) a Cancelled buffer is dropped, as the other two callbacks do
RPiCameraData_ispCaptureReady_DropsCancelled(p, r, status) ==
    IF status = "Cancelled" THEN p
    ELSE PipelineHandler_completeRequest(PipelineHandler_completeBuffer(p, r, status), r)

\* RPiCameraData::ispCaptureReady
RPiCameraData_ispCaptureReady(p, r, status) ==
    PipelineHandler_completeRequest(PipelineHandler_completeBuffer(p, r, status), r)

\* The ISP capture device reports a queued buffer ready, in any order and
\* with any status, and the callback runs.
IspCaptureReady(r, status) ==
    LET pos == CHOOSE i \in 1..Len(captureQueue) : captureQueue[i] = r
        p == RPiCameraData_ispCaptureReady(
                 [requests |-> requests, completions |-> completions], r, status)
    IN  /\ \E i \in 1..Len(captureQueue) : captureQueue[i] = r
        /\ captureQueue' = Erase(captureQueue, pos)
        /\ requests' = p.requests
        /\ completions' = p.completions
        /\ pipeLast' = [op |-> "ispCaptureReady", ret |-> 0, created |-> <<>>,
                        req |-> r, log |-> <<>>, status |-> status,
                        again |-> pipeLast.op = "ispCaptureReady"]
        /\ UNCHANGED <<bayerBuffers_, allocated, deviceBuffers>>
        /\ UNCHANGED <<streamVars, camVars, timerVars>>

PipeInit ==
    /\ bayerBuffers_ = <<>>
    /\ allocated = FALSE
    /\ deviceBuffers = [d \in Devices |-> FALSE]
    /\ requests = [r \in RequestIds |-> [state |-> "new", status |-> "pending"]]
    /\ captureQueue = <<>>
    /\ completions = [r \in RequestIds |-> 0]
    /\ pipeLast = [op |-> "init", ret |-> 0, created |-> <<>>, req |-> 0, log |-> <<>>,
                   status |-> "none", again |-> FALSE]

PipeNext ==
    \/ \E failing \in Devices \cup {NoDevice} : ExportFrameBuffers(failing)
    \/ \E failing \in Devices \cup {NoDevice} : FreeFrameBuffers(failing)
    \/ \E r \in RequestIds, hasBuffer \in BOOLEAN, enqueued \in BOOLEAN :
          QueueRequestDevice(r, hasBuffer, enqueued)
    \/ \E r \in RequestIds, status \in Terminal : IspCaptureReady(r, status)

(***************************************************************************)
(* The camera operations (raspberrypi.cpp): configure, start, stop.        *)
(***************************************************************************)
\* The states of a camera, and the error a call made in a wrong state gets.
CameraStates == {"Stopped", "Configured", "Running"}
EACCES == 13
\* errno value returned (negated) by configure and start
EINVAL == 22

\* (mutant) the camera lets every call through
Camera_allows_Always(op, state) == TRUE

\* The calls the camera lets through to the pipeline handler in each state.
Camera_allows(op, state) ==
    CASE op = "configure" -> state \in {"Stopped", "Configured"}
      [] op = "start" -> state = "Configured"
      [] op = "queueRequestDevice" -> state = "Running"
      [] OTHER -> TRUE

\* The state of the camera after a call that was let through returned ret.
Camera_next(op, state, ret) ==
    CASE op = "configure" /\ ret = 0 -> "Configured"
      [] op = "start" /\ ret = 0 -> "Running"
      [] op = "stop" -> "Stopped"
      [] OTHER -> state

\* V4L2DeviceFormat: a size and a fourcc. format = {} leaves the fourcc 0.
NoFourcc == "0"
NoFormat == [size |-> "0x0", fourcc |-> NoFourcc]
SensorSize == "1920x1080"
OutputSize == "1920x1088"
\* The stream configuration generateConfiguration() hands out.
Cfg == [size |-> "320x240", pixelFormat |-> "YUYV"]

\* What a device does with a setFormat call: it applies the format as
\* requested, applies another size or another fourcc, or fails.
Outcomes == {"ok", "size", "fourcc", "fail"}

\* V4L2VideoDevice::setFormat(&format) on a device holding cur: ret, the
\* format the caller reads back and the format the device holds. A device
\* asked for no fourcc applies its own; a failing call changes nothing.
DeviceSetFormat(cur, format, outcome) ==
    LET fourcc == IF outcome = "fourcc" THEN "other"
                  ELSE IF format.fourcc = NoFourcc THEN "bayer" ELSE format.fourcc
        applied == [size |-> IF outcome = "size" THEN "other" ELSE format.size,
                    fourcc |-> fourcc]
    IN  IF outcome = "fail"
        THEN [ret |-> -1, format |-> format, held |-> cur]
        ELSE [ret |-> 0, format |-> applied, held |-> applied]

\* One entry of the log of device calls a handler operation made.
DevCall(dev, call, ok) == [dev |-> dev, call |-> call, ok |-> ok]

\* PipelineHandlerRPi::configure. u, o, c: what unicam, the ISP output and the
\* ISP capture do with their setFormat call. The result of the third call is
\* stored and not looked at.
PipelineHandlerRPi_configure(formats, cfg, u, o, c) ==
    LET s1 == DeviceSetFormat(formats["unicam"], [NoFormat EXCEPT !.size = SensorSize], u)
        f1 == [formats EXCEPT !["unicam"] = s1.held]
        l1 == <<DevCall("unicam", "setFormat", s1.ret = 0)>>
    IN  IF s1.ret # 0 THEN [ret |-> s1.ret, formats |-> f1, log |-> l1]
        ELSE IF s1.format.size # SensorSize
        THEN [ret |-> -EINVAL, formats |-> f1, log |-> l1]
        ELSE
    LET unicam_fourcc == s1.format.fourcc
        s2 == DeviceSetFormat(formats["output"], [s1.format EXCEPT !.size = OutputSize], o)
        f2 == [f1 EXCEPT !["output"] = s2.held]
        l2 == Append(l1, DevCall("output", "setFormat", s2.ret = 0))
    IN  IF s2.ret # 0 THEN [ret |-> s2.ret, formats |-> f2, log |-> l2]
        ELSE IF s2.format.size # OutputSize \/ s2.format.fourcc # unicam_fourcc
        THEN [ret |-> -EINVAL, formats |-> f2, log |-> l2]
        ELSE
    LET s3 == DeviceSetFormat(formats["capture"],
                              [size |-> cfg.size, fourcc |-> cfg.pixelFormat], c)
        f3 == [f2 EXCEPT !["capture"] = s3.held]
        l3 == Append(l2, DevCall("capture", "setFormat", s3.ret = 0))
    IN  IF s3.format.size # cfg.size \/ s3.format.fourcc # cfg.pixelFormat
        THEN [ret |-> -EINVAL, formats |-> f3, log |-> l3]
        ELSE [ret |-> 0, formats |-> f3,
              log |-> Append(l3, DevCall("stream_", "setStream", TRUE))]

\* The chain of video devices, upstream first (raspberrypi.cpp:259), and the
\* devices downstream of a device.
Chain == <<"unicam", "output", "capture">>
Downstream(d) ==
    LET pos == CHOOSE i \in 1..Len(Chain) : Chain[i] = d
    IN  {Chain[j] : j \in (pos + 1)..Len(Chain)}

RawIds == 1..MaxRaw
\* The step of start() that fails.
StartFailures == {"none", "controls", "output", "capture", "unicam"}

\* V4L2VideoDevice::streamOn / streamOff, when the call succeeds.
DeviceStreamOn(str, d) == [str EXCEPT ![d] = TRUE]
DeviceStreamOff(str, d) == [str EXCEPT ![d] = FALSE]

\* (mutant) the rollback of start() streams off in the order of starting
PipelineHandlerRPi_start_RollbackForward(c, n, failing) ==
    LET raw == 1..n
        q == c.unicamQueue \cup raw
        on(d) == DevCall(d, "streamOn", TRUE)
        off(d) == DevCall(d, "streamOff", TRUE)
        res(ret, str, log) ==
            [ret |-> ret, streaming |-> str, rawBuffers_ |-> raw, unicamQueue |-> q,
             log |-> log]
    IN  IF n = 0 THEN res(-EINVAL, c.streaming, <<>>)
        ELSE IF failing = "controls" THEN res(-1, c.streaming, <<>>)
        ELSE IF failing = "output"
        THEN res(-1, c.streaming, <<DevCall("output", "streamOn", FALSE)>>)
        ELSE IF failing = "capture"
        THEN res(-1, DeviceStreamOff(DeviceStreamOn(c.streaming, "output"), "output"),
                 <<on("output"), DevCall("capture", "streamOn", FALSE), off("output")>>)
        ELSE IF failing = "unicam"
        THEN res(-1, DeviceStreamOff(DeviceStreamOff(
                        DeviceStreamOn(DeviceStreamOn(c.streaming, "output"), "capture"),
                        "output"), "capture"),
                 <<on("output"), on("capture"), DevCall("unicam", "streamOn", FALSE),
                   off("output"), off("capture")>>)
        ELSE res(0, DeviceStreamOn(DeviceStreamOn(DeviceStreamOn(c.streaming,
                        "output"), "capture"), "unicam"),
                 <<on("output"), on("capture"), on("unicam")>>)

\* PipelineHandlerRPi::start on c = [streaming, rawBuffers_, unicamQueue].
\* n: the number of raw buffers unicam_->queueAllBuffers() queues and hands
\* back; failing: the step that fails.
PipelineHandlerRPi_start(c, n, failing) ==
    LET raw == 1..n
        q == c.unicamQueue \cup raw
        on(d) == DevCall(d, "streamOn", TRUE)
        off(d) == DevCall(d, "streamOff", TRUE)
        res(ret, str, log) ==
            [ret |-> ret, streaming |-> str, rawBuffers_ |-> raw, unicamQueue |-> q,
             log |-> log]
        s1 == DeviceStreamOn(c.streaming, "output")
        s2 == DeviceStreamOn(s1, "capture")
        s3 == DeviceStreamOn(s2, "unicam")
        output_streamoff(str) == DeviceStreamOff(str, "output")
        capture_streamoff(str) == output_streamoff(DeviceStreamOff(str, "capture"))
    IN  IF n = 0 THEN res(-EINVAL, c.streaming, <<>>)
        ELSE IF failing = "controls" THEN res(-1, c.streaming, <<>>)
        ELSE IF failing = "output"
        THEN res(-1, c.streaming, <<DevCall("output", "streamOn", FALSE)>>)
        ELSE IF failing = "capture"
        THEN res(-1, output_streamoff(s1),
                 <<on("output"), DevCall("capture", "streamOn", FALSE), off("output")>>)
        ELSE IF failing = "unicam"
        THEN res(-1, capture_streamoff(s2),
                 <<on("output"), on("capture"), DevCall("unicam", "streamOn", FALSE),
                   off("capture"), off("output")>>)
        ELSE res(0, s3, <<on("output"), on("capture"), on("unicam")>>)

\* (mutant) stop() leaves rawBuffers_ as it is
PipelineHandlerRPi_stop_KeepsRaw(c) ==
    [streaming |-> [d \in Devices |-> FALSE], rawBuffers_ |-> c.rawBuffers_,
     log |-> <<DevCall("capture", "streamOff", TRUE), DevCall("output", "streamOff", TRUE),
               DevCall("unicam", "streamOff", TRUE)>>]

\* PipelineHandlerRPi::stop on c = [streaming, rawBuffers_].
PipelineHandlerRPi_stop(c) ==
    [streaming |-> DeviceStreamOff(DeviceStreamOff(DeviceStreamOff(c.streaming,
                       "capture"), "output"), "unicam"),
     rawBuffers_ |-> {},
     log |-> <<DevCall("capture", "streamOff", TRUE), DevCall("output", "streamOff", TRUE),
               DevCall("unicam", "streamOff", TRUE)>>]

\* (mutant) sensorReady forwards a buffer whatever its status
RPiCameraData_sensorReady_ForwardsCancelled(queue, b, status, enqueued) ==
    IF enqueued THEN queue \cup {b} ELSE queue

\* RPiCameraData::sensorReady: the ISP output queue afterwards. enqueued: the
\* queueBufferrpi call succeeds (its result is not looked at).
RPiCameraData_sensorReady(queue, b, status, enqueued) ==
    IF status = "Cancelled" THEN queue
    ELSE IF enqueued THEN queue \cup {b} ELSE queue

\* (mutant) ispOutputReady gives back only the buffers that carry a frame
RPiCameraData_ispOutputReady_DropsError(queue, b, status, enqueued) ==
    IF status # "Success" THEN queue
    ELSE IF enqueued THEN queue \cup {b} ELSE queue

\* RPiCameraData::ispOutputReady: the unicam queue afterwards.
RPiCameraData_ispOutputReady(queue, b, status, enqueued) ==
    IF status = "Cancelled" THEN queue
    ELSE IF enqueued THEN queue \cup {b} ELSE queue

\* The record of a camera call: the operation, its result, the request or
\* raw buffer it was about, the device calls it made, the status it got and
\* whether the call before it was of the same operation.
PipeCall(op, ret, req, log, status) ==
    [op |-> op, ret |-> ret, created |-> <<>>, req |-> req, log |-> log,
     status |-> status, again |-> pipeLast.op = op]

\* A call the camera does not let through: nothing is touched.
Rejected(op) ==
    /\ pipeLast' = PipeCall(op, -EACCES, 0, <<>>, "none")
    /\ UNCHANGED <<bayerBuffers_, allocated, deviceBuffers, requests, captureQueue,
                   completions>>
    /\ UNCHANGED camVars
    /\ UNCHANGED <<streamVars, timerVars>>

\* Camera::configure with the configuration generateConfiguration() made.
Configure(u, o, c) ==
    LET r == PipelineHandlerRPi_configure(deviceFormat, Cfg, u, o, c)
    IN  IF ~Camera_allows("configure", camState) THEN Rejected("configure")
        ELSE /\ deviceFormat' = r.formats
             /\ camState' = Camera_next("configure", camState, r.ret)
             /\ pipeLast' = PipeCall("configure", r.ret, 0, r.log, "none")
             /\ UNCHANGED <<streaming, rawBuffers_, unicamQueue, outputQueue>>
             /\ UNCHANGED configVars
             /\ UNCHANGED <<bayerBuffers_, allocated, deviceBuffers, requests,
                            captureQueue, completions>>
             /\ UNCHANGED <<streamVars, timerVars>>

\* Camera::start
Start(n, failing) ==
    LET r == PipelineHandlerRPi_start(
                 [streaming |-> streaming, rawBuffers_ |-> rawBuffers_,
                  unicamQueue |-> unicamQueue], n, failing)
    IN  IF ~Camera_allows("start", camState) THEN Rejected("start")
        ELSE /\ streaming' = r.streaming
             /\ rawBuffers_' = r.rawBuffers_
             /\ unicamQueue' = r.unicamQueue
             /\ camState' = Camera_next("start", camState, r.ret)
             /\ pipeLast' = PipeCall("start", r.ret, 0, r.log, "none")
             /\ UNCHANGED <<deviceFormat, outputQueue>>
             /\ UNCHANGED configVars
             /\ UNCHANGED <<bayerBuffers_, allocated, deviceBuffers, requests,
                            captureQueue, completions>>
             /\ UNCHANGED <<streamVars, timerVars>>

\* Camera::stop: let through in every state.
Stop ==
    LET r == PipelineHandlerRPi_stop([streaming |-> streaming,
                                      rawBuffers_ |-> rawBuffers_])
    IN  /\ streaming' = r.streaming
        /\ rawBuffers_' = r.rawBuffers_
        /\ camState' = Camera_next("stop", camState, 0)
        /\ pipeLast' = PipeCall("stop", 0, 0, r.log, "none")
        /\ UNCHANGED <<deviceFormat, unicamQueue, outputQueue>>
        /\ UNCHANGED configVars
        /\ UNCHANGED <<bayerBuffers_, allocated, deviceBuffers, requests,
                       captureQueue, completions>>
        /\ UNCHANGED <<streamVars, timerVars>>

\* Camera::queueRequest
QueueRequest(r, hasBuffer, enqueued) ==
    IF ~Camera_allows("queueRequestDevice", camState)
    THEN requests[r].state = "new" /\ Rejected("queueRequestDevice")
    ELSE QueueRequestDevice(r, hasBuffer, enqueued)

\* The status a device reports a buffer with: a device that is not streaming
\* reports the buffers it still holds as Cancelled.
DeviceStatus(d, status) == status \in Terminal /\ (streaming[d] \/ status = "Cancelled")

\* (mutant) sensorReady completes the buffers queued on the ISP capture with
\* the status of the raw buffer
SensorReady_CompletesRequest(b, status, enqueued) ==
    LET p == [requests |-> requests, completions |-> completions]
        RECURSIVE Done(_, _)
        Done(q, i) == IF i > Len(captureQueue) THEN q
                      ELSE Done(RPiCameraData_ispCaptureReady(q, captureQueue[i], status),
                                i + 1)
    IN  /\ b \in unicamQueue
        /\ DeviceStatus("unicam", status)
        /\ unicamQueue' = unicamQueue \ {b}
        /\ outputQueue' = RPiCameraData_sensorReady(outputQueue, b, status, enqueued)
        /\ requests' = Done(p, 1).requests
        /\ completions' = Done(p, 1).completions
        /\ pipeLast' = PipeCall("sensorReady", 0, b,
                                IF status = "Cancelled" THEN <<>>
                                ELSE <<DevCall("output", "queueBuffer", enqueued)>>, status)
        /\ UNCHANGED <<camState, streaming, deviceFormat, rawBuffers_>>
        /\ UNCHANGED configVars
        /\ UNCHANGED <<bayerBuffers_, allocated, deviceBuffers, captureQueue>>
        /\ UNCHANGED <<streamVars, timerVars>>

\* unicam reports raw buffer b ready and sensorReady runs.
SensorReady(b, status, enqueued) ==
    /\ b \in unicamQueue
    /\ DeviceStatus("unicam", status)
    /\ unicamQueue' = unicamQueue \ {b}
    /\ outputQueue' = RPiCameraData_sensorReady(outputQueue, b, status, enqueued)
    /\ pipeLast' = PipeCall("sensorReady", 0, b,
                            IF status = "Cancelled" THEN <<>>
                            ELSE <<DevCall("output", "queueBuffer", enqueued)>>, status)
    /\ UNCHANGED <<camState, streaming, deviceFormat, rawBuffers_>>
    /\ UNCHANGED configVars
    /\ UNCHANGED <<bayerBuffers_, allocated, deviceBuffers, requests, captureQueue,
                   completions>>
    /\ UNCHANGED <<streamVars, timerVars>>

\* The ISP output reports raw buffer b ready and ispOutputReady runs.
IspOutputReady(b, status, enqueued) ==
    /\ b \in outputQueue
    /\ DeviceStatus("output", status)
    /\ outputQueue' = outputQueue \ {b}
    /\ unicamQueue' = RPiCameraData_ispOutputReady(unicamQueue, b, status, enqueued)
    /\ pipeLast' = PipeCall("ispOutputReady", 0, b,
                            IF status = "Cancelled" THEN <<>>
                            ELSE <<DevCall("unicam", "queueBuffer", enqueued)>>, status)
    /\ UNCHANGED <<camState, streaming, deviceFormat, rawBuffers_>>
    /\ UNCHANGED configVars
    /\ UNCHANGED <<bayerBuffers_, allocated, deviceBuffers, requests, captureQueue,
                   completions>>
    /\ UNCHANGED <<streamVars, timerVars>>

\* The ISP capture reports the buffer of request r ready.
CaptureReady(r, status) ==
    /\ DeviceStatus("capture", status)
    /\ IspCaptureReady(r, status)

\* The number of setFormat calls configure makes when the devices answer x.
SetFormatCalls(x) ==
    Cardinality({i \in 1..Len(PipelineHandlerRPi_configure(
                                 [d \in Devices |-> NoFormat], Cfg, x[1], x[2], x[3]).log) :
                    PipelineHandlerRPi_configure(
                        [d \in Devices |-> NoFormat], Cfg, x[1], x[2], x[3]).log[i].call
                    = "setFormat"})

\* The answers of the three devices to one configure call; a device that is
\* not asked has no answer ("ok" stands for it).
ConfigureInputs ==
    {x \in Outcomes \X Outcomes \X Outcomes :
        /\ SetFormatCalls(x) < 2 => x[2] = "ok"
        /\ SetFormatCalls(x) < 3 => x[3] = "ok"}

\* The Requests the application queues.
QueuedIds == 1..MaxQueued

CamInit ==
    /\ camState = "Stopped"
    /\ streaming = [d \in Devices |-> FALSE]
    /\ deviceFormat = [d \in Devices |-> NoFormat]
    /\ rawBuffers_ = {}
    /\ unicamQueue = {}
    /\ outputQueue = {}

CamNext ==
    \/ \E x \in ConfigureInputs : Configure(x[1], x[2], x[3])
    \/ \E n \in 0..MaxRaw, failing \in StartFailures : Start(n, failing)
    \/ Stop
    \/ \E r \in QueuedIds, hasBuffer \in BOOLEAN, enqueued \in BOOLEAN :
          QueueRequest(r, hasBuffer, enqueued)

\* In SpecChain the devices apply the formats configure asks for.
ChainNext ==
    \/ Configure("ok", "ok", "ok")
    \/ \E n \in 0..MaxRaw, failing \in StartFailures : Start(n, failing)
    \/ Stop
    \/ \E r \in QueuedIds, hasBuffer \in BOOLEAN, enqueued \in BOOLEAN :
          QueueRequest(r, hasBuffer, enqueued)
    \/ \E b \in RawIds, status \in Terminal, enqueued \in BOOLEAN :
          SensorReady(b, status, enqueued)
    \/ \E b \in RawIds, status \in Terminal, enqueued \in BOOLEAN :
          IspOutputReady(b, status, enqueued)
    \/ \E r \in QueuedIds, status \in Terminal : CaptureReady(r, status)

(***************************************************************************)
(* The camera configuration (raspberrypi.cpp): addConfiguration, validate. *)
(***************************************************************************)
\* The stream configurations an application may put into a configuration.
Sizes == {"320x240", "1920x1080"}
AppBufferCounts == {1, BufferCount, BufferCount + 1}
StreamConfigurations ==
    [size : Sizes, pixelFormat : {"YUYV"}, bufferCount : AppBufferCounts]

\* RPiCameraConfiguration::validate: [status, config_] afterwards.
RPiCameraConfiguration_validate(config) ==
    IF config = <<>> THEN [status |-> "Invalid", config_ |-> config]
    ELSE LET resized == IF Len(config) > 1 THEN SubSeq(config, 1, 1) ELSE config
             status == IF Len(config) > 1 THEN "Adjusted" ELSE "Valid"
         IN  [status |-> status,
              config_ |-> [resized EXCEPT ![1].bufferCount = BufferCount]]

\* CameraConfiguration::addConfiguration
AddConfiguration(cfg) ==
    /\ Len(config_) < MaxStreams
    /\ config_' = Append(config_, cfg)
    /\ validateLast' = [op |-> "addConfiguration", status |-> "none",
                        before |-> config_, again |-> FALSE]
    /\ UNCHANGED <<camState, streaming, deviceFormat, rawBuffers_, unicamQueue,
                   outputQueue>>
    /\ UNCHANGED <<streamVars, pipeVars, timerVars>>

\* The application calls validate().
Validate ==
    LET r == RPiCameraConfiguration_validate(config_)
    IN  /\ config_' = r.config_
        /\ validateLast' = [op |-> "validate", status |-> r.status,
                            before |-> config_,
                            again |-> validateLast.op = "validate"]
        /\ UNCHANGED <<camState, streaming, deviceFormat, rawBuffers_, unicamQueue,
                       outputQueue>>
        /\ UNCHANGED <<streamVars, pipeVars, timerVars>>

ConfigInit ==
    /\ config_ = <<>>
    /\ validateLast = [op |-> "init", status |-> "none", before |-> <<>>,
                       again |-> FALSE]

ConfigNext ==
    \/ \E cfg \in StreamConfigurations : AddConfiguration(cfg)
    \/ Validate

(***************************************************************************)
(* The event dispatcher and its Timer, as test/event-dispatcher.cpp drives *)
(* them: timer.start(D), setitimer(S), processEvents().                    *)
(***************************************************************************)
\* timer.start(1000), it_value.tv_usec = 500000, abs(duration - 1000) > 50
Duration == 1000
SignalAt == 500
Tolerance == 50

\* The clock advances in steps of Tick; a wait that times out is woken up
\* at most Tick late.
Tick == Tolerance
NoTime == -1
\* The delays after which the external signal may fire.
SignalDelays == {t \in 1..(Duration - 1) : t % Tick = 0}

\* (mutant) an interrupted wait is restarted with the full duration
EventDispatcher_timeout_RestartsFull(d, t, duration) == duration

\* The time the dispatcher waits for when it enters, or re-enters, the wait
\* at time t with the nearest timer deadline d: what is left until d.
EventDispatcher_timeout(d, t, duration) == IF d > t THEN d - t ELSE 0

TimerInit ==
    /\ now = 0
    /\ phase = "idle"
    /\ deadline = NoTime
    /\ alarm = NoTime
    /\ waitUntil = NoTime
    /\ timerLast = [started |-> NoTime, interrupted |-> NoTime, fired |-> NoTime,
                    returned |-> NoTime]

NotTimer == UNCHANGED <<streamVars, pipeVars, camVars>>

\* Timer::start(Duration)
TimerStart ==
    /\ phase = "idle"
    /\ phase' = "armed"
    /\ deadline' = now + Duration
    /\ timerLast' = [timerLast EXCEPT !.started = now]
    /\ UNCHANGED <<now, alarm, waitUntil>>
    /\ NotTimer

\* setitimer(ITIMER_REAL, s): the signal will fire s ms from now.
SetItimer(s) ==
    /\ phase = "armed" /\ alarm = NoTime
    /\ alarm' = now + s
    /\ UNCHANGED <<now, phase, deadline, waitUntil, timerLast>>
    /\ NotTimer

\* processEvents() is entered and the dispatcher starts to wait.
ProcessEvents ==
    /\ phase = "armed"
    /\ phase' = "waiting"
    /\ waitUntil' = now + EventDispatcher_timeout(deadline, now, Duration)
    /\ UNCHANGED <<now, deadline, alarm, timerLast>>
    /\ NotTimer

\* Time passes while the dispatcher waits: not beyond the pending signal,
\* and not more than Tick beyond the end of the wait.
Elapse ==
    /\ phase = "waiting"
    /\ now < waitUntil
    /\ alarm # NoTime => now < alarm
    /\ now' = now + Tick
    /\ UNCHANGED <<phase, deadline, alarm, waitUntil, timerLast>>
    /\ NotTimer

\* The signal fires and interrupts the wait: the dispatcher works out the
\* time to wait anew and waits again.
Interrupt ==
    /\ phase = "waiting"
    /\ alarm # NoTime /\ now >= alarm
    /\ alarm' = NoTime
    /\ waitUntil' = now + EventDispatcher_timeout(deadline, now, Duration)
    /\ timerLast' = [timerLast EXCEPT !.interrupted = now]
    /\ UNCHANGED <<now, phase, deadline>>
    /\ NotTimer

\* The wait times out, now or Tick later: the timers that are due fire and
\* processEvents() returns.
Timeout(late) ==
    /\ phase = "waiting"
    /\ now >= waitUntil
    /\ alarm # NoTime => now + late < alarm
    /\ now' = now + late
    /\ phase' = "returned"
    /\ timerLast' = [timerLast EXCEPT
                        !.fired = IF deadline <= now + late THEN now + late ELSE NoTime,
                        !.returned = now + late]
    /\ UNCHANGED <<deadline, alarm, waitUntil>>
    /\ NotTimer

TimerNext ==
    \/ TimerStart
    \/ \E s \in SignalDelays : SetItimer(s)
    \/ ProcessEvents
    \/ Elapse
    \/ Interrupt
    \/ \E late \in {0, Tick} : Timeout(late)

(***************************************************************************)
(* Specifications                                                          *)
(***************************************************************************)
Init == StreamInit /\ PipeInit /\ CamInit /\ ConfigInit /\ TimerInit

\* The Stream alone.
Spec == Init /\ [][StreamNext]_vars

\* The pipeline handler alone.
SpecPipe == Init /\ [][PipeNext]_vars

\* The camera operations.
SpecCam == Init /\ [][CamNext]_vars

\* The camera with its buffer-ready callbacks.
SpecChain == Init /\ [][ChainNext]_vars

\* The event dispatcher and one Timer.
SpecTimer == Init /\ [][TimerNext]_vars

\* The camera configuration and its validation.
SpecConfig == Init /\ [][ConfigNext]_vars

\* Every buffer queued on the ISP capture is eventually reported.
SpecChainFair ==
    SpecChain /\ \A r \in QueuedIds :
                    WF_vars(\E status \in Terminal : CaptureReady(r, status))

(***************************************************************************)
(* Properties of the Stream (checked under Spec).                          *)
(***************************************************************************)
\* The stream was set up by createBuffers(External, N) with N > 0 and only
\* createBuffer, mapBuffer, unmapBuffer and plane accesses followed.
ExternalEpoch == memoryType_ = ExternalMemory /\ bufferPool_ # <<>> /\ ~fault

\* The last step was a call of op that returned.
Returned(op) == last'.op = op /\ ~fault'

\* C1: on an External stream created with createBuffers(External, N), the
\* number of checked-out buffers equals N minus the number of cache entries
\* and never exceeds N.
C1_OutstandingWithinCount ==
    ExternalEpoch =>
        /\ Cardinality(Outstanding) = Len(bufferPool_) - Len(bufferCache_)
        /\ Cardinality(Outstanding) <= Len(bufferPool_)

\* C1 witness: every slot of a pool of at least two slots is checked out.
C1_Witness ==
    /\ ExternalEpoch
    /\ Len(bufferPool_) >= 2
    /\ Cardinality(Outstanding) = Len(bufferPool_)

\* C2: mapBuffer on an empty cache returns -ENOMEM and leaves the cache and the
\* planes of every slot as they were.
C2_EmptyCacheFails ==
    [][(Returned("mapBuffer") /\ bufferCache_ = <<>>) =>
          /\ last'.ret = -ENOMEM
          /\ bufferCache_' = bufferCache_
          /\ bufferPool_' = bufferPool_]_streamVars

\* C2 witness: mapBuffer failed with -ENOMEM while a slot holds planes.
C2_Witness ==
    /\ last.op = "mapBuffer" /\ last.ret = -ENOMEM
    /\ ExternalEpoch
    /\ \E i \in 1..Len(bufferPool_) : bufferPool_[i] # <<>>

\* C3: on a miss mapBuffer takes the first cache entry, which is the oldest
\* one in the cache; the cache is ordered by insertion (seeding order, then the
\* order of the unmapBuffer calls).
C3_MissEvictsOldest ==
    /\ [](cacheRank = [i \in 1..Len(bufferCache_) |-> i])
    /\ [][(Returned("mapBuffer") /\ last'.ret >= 0 /\ ~last'.hit) =>
             /\ last'.rank = 1
             /\ last'.ret = bufferCache_[1].second
             /\ bufferCache_' = Tail(bufferCache_)]_streamVars

\* C3 witness: a miss took the oldest entry although a newer entry, still in
\* the cache, holds a lower slot index.
C3_Witness ==
    /\ last.op = "mapBuffer" /\ last.ret >= 0 /\ ~last.hit /\ ~last.oob
    /\ bufferCache_ # <<>>
    /\ bufferCache_[1].second < last.ret

\* C4 as claimed: on a hit mapBuffer returns the slot of the matching entry and
\* leaves the planes of that slot unchanged.
C4_HitLeavesPlanes ==
    [][(Returned("mapBuffer") /\ last'.hit /\ ~last'.oob) =>
          /\ \E i \in 1..Len(bufferCache_) :
                bufferCache_[i].first = last'.fds /\ bufferCache_[i].second = last'.ret
          /\ bufferPool_'[last'.ret + 1] = bufferPool_[last'.ret + 1]]_streamVars

\* C4 amended: on a hit mapBuffer returns the slot of the matching entry; the
\* slot keeps the descriptors it had, but its planes are rebuilt from the
\* buffer's descriptors, so that every memory mapping of the slot is gone.
C4_HitRebuildsPlanes ==
    [][(Returned("mapBuffer") /\ last'.hit /\ ~last'.oob) =>
          /\ \E i \in 1..Len(bufferCache_) :
                bufferCache_[i].first = last'.fds /\ bufferCache_[i].second = last'.ret
          /\ LET old == bufferPool_[last'.ret + 1]
                 new == bufferPool_'[last'.ret + 1]
             IN  /\ Len(new) = Len(old)
                 /\ \A p \in 1..Len(new) :
                       /\ new[p].fd = old[p].fd
                       /\ new[p].fd = last'.fds[p]
                       /\ ~new[p].mapped
                 /\ Len(new) = 3 \/ last'.fds[Len(new) + 1] = -1]_streamVars

\* C4 witness: a hit on a slot returned a slot that has planes.
C4_Witness ==
    /\ last.op = "mapBuffer" /\ last.hit /\ ~last.oob /\ ~fault
    /\ bufferPool_[last.ret + 1] # <<>>

\* C5 as claimed: the second of two mapBuffer calls in a row with the same
\* descriptor set returns the slot of the first call or fails with -ENOMEM.
C5_SecondMapSameSlot ==
    [][(last.op = "mapBuffer" /\ last.ret >= 0 /\ Returned("mapBuffer")
        /\ last'.fds = last.fds /\ last'.again) =>
          (last'.ret = last.ret \/ last'.ret = -ENOMEM)]_streamVars

\* C5 amended: the second call fails with -ENOMEM exactly when the first call
\* emptied the cache; otherwise it returns the slot of another cache entry,
\* never the slot the first call returned.
C5_SecondMapOtherSlot ==
    [][(last.op = "mapBuffer" /\ last.ret >= 0 /\ Returned("mapBuffer")
        /\ last'.fds = last.fds /\ last'.again) =>
          IF bufferCache_ = <<>>
          THEN last'.ret = -ENOMEM
          ELSE /\ last'.ret >= 0
               /\ last'.ret # last.ret
               /\ \E i \in 1..Len(bufferCache_) : bufferCache_[i].second = last'.ret]_streamVars

\* C5 witness: a second mapBuffer in a row with the same descriptors returned
\* a slot.
C5_Witness ==
    /\ last.op = "mapBuffer" /\ last.again /\ last.ret >= 0 /\ ~last.oob

\* C6 as claimed: a mapBuffer whose descriptor set is the key of a cache
\* entry returns the slot of that entry, whichever entry it is.
C6_MapReturnsUnmappedSlot ==
    [][(Returned("mapBuffer") /\ last'.ret >= 0) =>
          \A i \in 1..Len(bufferCache_) :
             bufferCache_[i].first = last'.fds => last'.ret = bufferCache_[i].second]_streamVars

\* C6 amended: unmapBuffer appends the entry (descriptor set, slot) of the
\* buffer to the cache, and a mapBuffer whose descriptor set is the key of a
\* cache entry returns the slot of the oldest such entry: the slot comes back
\* when no older entry has the same descriptor set.
C6_MapReturnsOldestMatch ==
    /\ [][Returned("unmapBuffer") =>
             bufferCache_' = Append(bufferCache_,
                                    [first |-> frameBuffers[last'.buf].dmabuf_,
                                     second |-> frameBuffers[last'.buf].index_])]_streamVars
    /\ [][(Returned("mapBuffer") /\ last'.ret >= 0 /\ last'.hit) =>
             \E i \in 1..Len(bufferCache_) :
                /\ bufferCache_[i].first = last'.fds
                /\ bufferCache_[i].second = last'.ret
                /\ \A j \in 1..(i - 1) : bufferCache_[j].first # last'.fds]_streamVars

\* C6 witness: a buffer got back, on a hit, the slot of an entry while a
\* second entry with the same descriptor set stays in the cache.
C6_Witness ==
    /\ last.op = "mapBuffer" /\ last.hit /\ ~last.oob /\ ~fault
    /\ \E i \in 1..Len(bufferCache_) : bufferCache_[i].first = last.fds

\* C8: destroyBuffers empties the pool; a second destroyBuffers in a row
\* changes nothing of the pool, the memory mode and the cache; createBuffers
\* with count 0 returns with an empty pool.
C8_DestroyIdempotent ==
    [][/\ Returned("destroyBuffers") => bufferPool_' = <<>>
       /\ (last.op = "destroyBuffers" /\ Returned("destroyBuffers")) =>
             UNCHANGED <<bufferPool_, memoryType_, bufferCache_>>
       /\ (Returned("createBuffers") /\ last'.n = 0) => bufferPool_' = <<>>]_streamVars

\* C8 witness: destroyBuffers was called twice in a row on a stream whose
\* cache is not empty.
C8_Witness ==
    /\ last.op = "destroyBuffers" /\ last.again
    /\ bufferCache_ # <<>>

\* C9: createBuffer(index) returns no buffer unless the stream is Internal and
\* index < count, and then a buffer bound to the slot and the stream;
\* createBuffer(descriptors) returns no buffer unless the stream is External,
\* and then a buffer carrying the descriptors; neither changes pool or cache.
C9_CreateBuffer ==
    /\ [](last.op = "createBufferIndex" =>
            IF memoryType_ # InternalMemory \/ last.n >= Len(bufferPool_)
            THEN last.ret = NoBuffer
            ELSE /\ last.ret # NoBuffer
                 /\ last.ret.index_ = last.n
                 /\ last.ret.stream_ = "this")
    /\ [](last.op = "createBufferFds" =>
            IF memoryType_ # ExternalMemory
            THEN last.ret = NoBuffer
            ELSE /\ last.ret # NoBuffer
                 /\ last.ret.dmabuf_ = last.fds
                 /\ last.ret.stream_ = "this")
    /\ [][(last'.op = "createBufferIndex" \/ last'.op = "createBufferFds") =>
             UNCHANGED <<bufferPool_, bufferCache_, memoryType_>>]_streamVars

\* C9 witness: createBuffer(index) returned a buffer for the last slot of a
\* pool of at least two slots.
C9_Witness ==
    /\ last.op = "createBufferIndex"
    /\ last.ret # NoBuffer
    /\ last.n = Len(bufferPool_) - 1 /\ last.n >= 1

(***************************************************************************)
(* Properties of the pipeline handler (checked under SpecPipe).            *)
(***************************************************************************)
\* C7: createBuffers(count) leaves exactly count slots, none of them a prior
\* slot with its planes: both Stream::createBuffers and the
\* BufferPool::createBuffers that exportFrameBuffers makes on the
\* intermediate pool.
C7_CreateBuffersDiscards ==
    /\ last.op = "createBuffers" =>
          /\ Len(bufferPool_) = last.n
          /\ \A i \in 1..Len(bufferPool_) : bufferPool_[i] = <<>>
    /\ pipeLast.op = "exportFrameBuffers" =>
          /\ Len(pipeLast.created) = BufferCount
          /\ \A i \in 1..Len(pipeLast.created) : pipeLast.created[i] = <<>>

\* The Stream half of C7, which holds (under Spec): Stream::createBuffers
\* destroys the pool first.
C7_StreamCreateBuffersDiscards ==
    last.op = "createBuffers" =>
       /\ Len(bufferPool_) = last.n
       /\ \A i \in 1..Len(bufferPool_) : bufferPool_[i] = <<>>

OnCapture == {captureQueue[i] : i \in 1..Len(captureQueue)}

\* C11: a raw buffer that unicam reports Cancelled is not queued on the ISP
\* output by sensorReady (no queueBuffer call is made), and its drop leaves
\* every queued request as it was, with its buffer on the ISP capture, from
\* where its completion comes.
C11_CancelledNotForwarded ==
    [][(pipeLast'.op = "sensorReady" /\ pipeLast'.status = "Cancelled") =>
          /\ outputQueue' = outputQueue
          /\ pipeLast'.log = <<>>
          /\ UNCHANGED <<requests, captureQueue, completions>>
          /\ \A r \in RequestIds : requests'[r].state = "queued" => r \in OnCapture'
      ]_vars

\* C11 witness: unicam, streaming, reported the raw buffer Cancelled while a
\* request was queued; the buffer is on no queue.
C11_Witness ==
    /\ pipeLast.op = "sensorReady" /\ pipeLast.status = "Cancelled"
    /\ camState = "Running"
    /\ pipeLast.req \notin outputQueue \cup unicamQueue
    /\ \E r \in RequestIds : requests[r].state = "queued"

\* C12: every request queueRequestDevice accepted completes, whatever the
\* status its buffer comes back with and whether or not stop() was called in
\* between (under SpecChainFair: every buffer queued on the ISP capture is
\* eventually reported).
C12_AcceptedRequestCompletes ==
    \A r \in QueuedIds :
       (requests[r].state = "queued") ~> (requests[r].state = "complete")

\* C12 witness: a request completed with a Cancelled buffer that came back
\* after stop().
C12_Witness ==
    /\ pipeLast.op = "ispCaptureReady" /\ pipeLast.status = "Cancelled"
    /\ camState = "Stopped"
    /\ requests[pipeLast.req].state = "complete"
    /\ completions[pipeLast.req] = 1

(***************************************************************************)
(* Properties of the camera operations (checked under SpecCam).            *)
(***************************************************************************)
\* The devices a log streams on (with success), and streams off, in order.
IsOn(e) == e.call = "streamOn" /\ e.ok
IsOff(e) == e.call = "streamOff"
DevicesOf(log) == [i \in 1..Len(log) |-> log[i].dev]
StreamedOn(log) == DevicesOf(SelectSeq(log, IsOn))
StreamedOff(log) == DevicesOf(SelectSeq(log, IsOff))
Reverse(seq) == [i \in 1..Len(seq) |-> seq[Len(seq) + 1 - i]]

\* The devices streaming after the first k calls of a log, from str.
RECURSIVE StreamingAfter(_, _, _)
StreamingAfter(str, log, k) ==
    IF k = 0 THEN str
    ELSE LET before == StreamingAfter(str, log, k - 1)
         IN  IF IsOn(log[k]) THEN DeviceStreamOn(before, log[k].dev)
             ELSE IF IsOff(log[k]) THEN DeviceStreamOff(before, log[k].dev)
             ELSE before

\* The last step was a call of op that the camera let through.
Ran(op) == pipeLast'.op = op /\ pipeLast'.ret # -EACCES

\* C13: after every device call of start(), a device that is streaming has
\* every device downstream of it streaming.
C13_StartDownstreamFirst ==
    [][Ran("start") =>
          \A k \in 0..Len(pipeLast'.log) :
             LET str == StreamingAfter(streaming, pipeLast'.log, k)
             IN  \A d \in Devices : str[d] => \A e \in Downstream(d) : str[e]
      ]_vars

\* C14: a stop() that follows a successful start() streams off the devices
\* in the reverse of the order in which that start() streamed them on.
C14_StopMirrorsStart ==
    [][(pipeLast.op = "start" /\ pipeLast.ret = 0 /\ Ran("stop")) =>
          StreamedOff(pipeLast'.log) = Reverse(StreamedOn(pipeLast.log))
      ]_vars

\* C15: when start() returns a failure, the devices it streamed on have been
\* streamed off by it, after the failing call and in the reverse of the order
\* of starting, and no device is streaming.
C15_StartRollsBack ==
    [][(Ran("start") /\ pipeLast'.ret # 0) =>
          LET log == pipeLast'.log
          IN  /\ StreamedOff(log) = Reverse(StreamedOn(log))
              /\ \A i, j \in 1..Len(log) : IsOn(log[i]) /\ IsOff(log[j]) => i < j
              /\ \A d \in Devices : ~streaming'[d]
      ]_vars

\* C15 witness: start() failed at the streamOn of unicam, after it had
\* streamed on two devices.
C15_Witness ==
    /\ pipeLast.op = "start" /\ pipeLast.ret # 0
    /\ Len(StreamedOn(pipeLast.log)) = 2
    /\ Len(StreamedOff(pipeLast.log)) = 2

C17_StopIdempotent ==
    [][Ran("stop") =>
          /\ \A d \in Devices : ~streaming'[d]
          /\ rawBuffers_' = {}
          /\ camState' = "Stopped"
          /\ (pipeLast.op = "stop" \/ camState = "Stopped") =>
                UNCHANGED <<streaming, rawBuffers_, camState, deviceFormat,
                            unicamQueue, outputQueue, captureQueue, requests>>
      ]_vars

\* C17 witness: stop() was called twice in a row on a camera that had run.
C17_Witness ==
    /\ pipeLast.op = "stop" /\ pipeLast.again
    /\ unicamQueue # {}
    /\ rawBuffers_ = {}

\* C19: a configure() in which a setFormat call failed returns a failure.
C19_SetFormatFailureFails ==
    (/\ pipeLast.op = "configure"
     /\ \E i \in 1..Len(pipeLast.log) :
           pipeLast.log[i].call = "setFormat" /\ ~pipeLast.log[i].ok)
    => pipeLast.ret # 0

\* C20: a configure() that returns an error has changed the format of none
\* of the three devices, or of all of them.
C20_FailedConfigureChangesNothing ==
    [][(Ran("configure") /\ pipeLast'.ret # 0) =>
          {d \in Devices : deviceFormat'[d] # deviceFormat[d]} \in {{}, Devices}
      ]_vars

(***************************************************************************)
(* Properties of the event dispatcher (checked under SpecTimer).           *)
(***************************************************************************)
\* C18: when processEvents() has returned, the Timer has fired, at the time
\* processEvents() returned, and Duration ms have passed since the Timer was
\* started, give or take Tolerance: also when a signal interrupted the wait.
C18_TimerAccurate ==
    phase = "returned" =>
       LET elapsed == timerLast.returned - timerLast.started
       IN  /\ timerLast.fired = timerLast.returned
           /\ elapsed - Duration <= Tolerance
           /\ Duration - elapsed <= Tolerance

\* C18 witness: the signal interrupted the wait SignalAt ms after the Timer
\* was started and processEvents() has returned.
C18_Witness ==
    /\ phase = "returned"
    /\ timerLast.interrupted = timerLast.started + SignalAt
    /\ timerLast.fired # NoTime

(***************************************************************************)
(* Properties of the buffer-ready callbacks (checked under SpecChain).     *)
(***************************************************************************)
\* A device call of the last operation failed.
DeviceCallFailed(call) == \E i \in 1..Len(call.log) : ~call.log[i].ok

\* The last operation set the buffer of a Request to the Error status.
ErrorRecorded ==
    \E r \in RequestIds : requests'[r].status = "Error" /\ requests[r].status # "Error"

\* C21: no device failure is silent: an operation one of whose device calls
\* (setFormat, streamOn, buffer enqueue) failed returns an error, or records
\* the failure in the status of the buffer of a Request; this holds of the
\* buffer-ready callbacks too.
C21_NoSilentFailure ==
    [][DeviceCallFailed(pipeLast') => (pipeLast'.ret # 0 \/ ErrorRecorded)]_vars

\* C22: a successful queueRequestDevice() puts the buffer of the Request on
\* the queue of the ISP capture, the last device of the chain, and on no
\* other queue; a queued Request changes only when ispCaptureReady reports
\* its buffer from that queue, never in sensorReady or ispOutputReady.
C22_QueuedOnTerminalStage ==
    [][/\ (Ran("queueRequestDevice") /\ pipeLast'.ret = 0) =>
             /\ captureQueue' = Append(captureQueue, pipeLast'.req)
             /\ UNCHANGED <<unicamQueue, outputQueue>>
       /\ \A r \in RequestIds :
             (requests[r].state = "queued" /\ requests'[r] # requests[r]) =>
                /\ pipeLast'.op = "ispCaptureReady" /\ pipeLast'.req = r
                /\ r \in OnCapture
      ]_vars

\* C22 witness: a Request was accepted while a raw buffer was on its way
\* through the chain, and its buffer is on the ISP capture.
C22_Witness ==
    /\ pipeLast.op = "queueRequestDevice" /\ pipeLast.ret = 0
    /\ pipeLast.req \in OnCapture
    /\ camState = "Running" /\ outputQueue # {}

\* C22 as stated: a successful queueRequestDevice() puts the buffer on the
\* first device of the chain and not yet on the last one, which it reaches
\* only by being forwarded.
C22_QueuedOnFirstStage ==
    [][(Ran("queueRequestDevice") /\ pipeLast'.ret = 0) =>
          /\ unicamQueue' # unicamQueue
          /\ pipeLast'.req \notin {captureQueue'[i] : i \in 1..Len(captureQueue')}
      ]_vars

(***************************************************************************)
(* Properties of the camera configuration (checked under SpecConfig).      *)
(***************************************************************************)
\* C23: validate() returns Invalid exactly when the configuration is empty,
\* Adjusted whenever it changed the configuration (dropped streams or changed
\* a buffer count), and Valid only when it left the configuration as it was;
\* validating a validated configuration again returns Valid and changes
\* nothing.
C23_ValidateReports ==
    validateLast.op = "validate" =>
       /\ validateLast.status = "Invalid" <=> validateLast.before = <<>>
       /\ config_ # validateLast.before => validateLast.status = "Adjusted"
       /\ validateLast.status = "Valid" => config_ = validateLast.before
       /\ (validateLast.again /\ validateLast.before # <<>>) =>
             validateLast.status = "Valid" /\ config_ = validateLast.before

\* The raw buffers in circulation between unicam and the ISP output.
InCirculation == unicamQueue \cup outputQueue

\* The callback of the last step handed its buffer on: the buffer was not
\* Cancelled and the enqueue succeeded.
Forwarded(call) ==
    /\ call.status # "Cancelled"
    /\ call.log # <<>>
    /\ ~DeviceCallFailed(call)

\* C24: ispOutputReady queues the buffer it is given on unicam unless the
\* buffer is Cancelled, and sensorReady likewise on the ISP output; a
\* callback that hands its buffer on leaves the set of buffers in circulation
\* as it was, one whose buffer is Cancelled or whose enqueue fails queues it
\* nowhere, and no callback adds a buffer to the circulation.
C24_ForwardedBufferRecirculates ==
    [][/\ pipeLast'.op = "ispOutputReady" =>
             /\ pipeLast'.req \notin outputQueue'
             /\ IF Forwarded(pipeLast')
                THEN pipeLast'.req \in unicamQueue' /\ InCirculation' = InCirculation
                ELSE unicamQueue' = unicamQueue
       /\ pipeLast'.op = "sensorReady" =>
             /\ pipeLast'.req \notin unicamQueue'
             /\ IF Forwarded(pipeLast')
                THEN pipeLast'.req \in outputQueue' /\ InCirculation' = InCirculation
                ELSE outputQueue' = outputQueue
       /\ pipeLast'.op \in {"sensorReady", "ispOutputReady", "ispCaptureReady"} =>
             InCirculation' \subseteq InCirculation
      ]_vars

\* C24 witness: the camera is running and ispOutputReady has put the buffer
\* the ISP output reported back on unicam.
C24_Witness ==
    /\ pipeLast.op = "ispOutputReady" /\ Forwarded(pipeLast)
    /\ camState = "Running"
    /\ pipeLast.req \in unicamQueue /\ pipeLast.req \notin outputQueue

\* C24 as stated: every buffer ispOutputReady is given is back on unicam
\* afterwards, and the number of buffers in circulation stays the same.
C24_EveryBufferReturned ==
    [][pipeLast'.op = "ispOutputReady" =>
          /\ pipeLast'.req \in unicamQueue'
          /\ Cardinality(InCirculation') = Cardinality(InCirculation)
      ]_vars

\* The buffer of request r was completed, or the completion of r signalled,
\* in the last step.
Completed(r) ==
    \/ requests'[r].status # requests[r].status
    \/ completions'[r] # completions[r]
    \/ requests'[r].state = "complete" /\ requests[r].state # "complete"

\* C25: the buffer of a Request is completed, and the completion of the
\* Request signalled, in ispCaptureReady for that buffer only: sensorReady
\* and ispOutputReady leave every Request and every buffer status alone; a
\* buffer that has a terminal status is not completed again, and no
\* completion is signalled twice.
C25_OnlyCaptureReadyCompletes ==
    [][/\ \A r \in RequestIds :
             Completed(r) =>
                /\ pipeLast'.op = "ispCaptureReady" /\ pipeLast'.req = r
                /\ requests[r].status \notin Terminal
                /\ completions'[r] = 1
       /\ pipeLast'.op \in {"sensorReady", "ispOutputReady"} =>
             UNCHANGED <<requests, completions, captureQueue>>
      ]_vars

\* C25 witness: a Request is complete, its completion signalled once, and a
\* forwarding callback ran after that.
C25_Witness ==
    /\ pipeLast.op \in {"sensorReady", "ispOutputReady"}
    /\ pipeLast.status # "Cancelled"
    /\ \E r \in RequestIds :
          /\ requests[r].state = "complete" /\ requests[r].status \in Terminal
          /\ completions[r] = 1

(***************************************************************************)
(* More properties of the pipeline handler (checked under SpecPipe).       *)
(***************************************************************************)
\* C26: a queueRequestDevice() for a Request that has no buffer for the
\* stream makes no device call and returns -ENOENT, and one whose enqueue
\* fails returns an error; either leaves the queue of the ISP capture and
\* every Request as they were; a Request becomes queued only in a
\* queueRequestDevice() that has put its buffer on the ISP capture.
C26_FailedQueueNoSideEffect ==
    [][/\ pipeLast'.op = "queueRequestDevice" =>
             /\ pipeLast'.log = <<>> => pipeLast'.ret = -ENOENT
             /\ DeviceCallFailed(pipeLast') => pipeLast'.ret < 0
             /\ pipeLast'.ret # 0 =>
                   UNCHANGED <<captureQueue, requests, completions, bayerBuffers_,
                               deviceBuffers>>
       /\ \A r \in RequestIds :
             (requests'[r].state = "queued" /\ requests[r].state # "queued") =>
                /\ pipeLast'.op = "queueRequestDevice" /\ pipeLast'.req = r
                /\ pipeLast'.ret = 0 /\ ~DeviceCallFailed(pipeLast')
                /\ captureQueue' = Append(captureQueue, r)
      ]_vars

\* C26 witness: one Request is queued; the enqueue of the buffer of another
\* failed, and that Request is as the application made it.
C26_Witness ==
    /\ pipeLast.op = "queueRequestDevice" /\ DeviceCallFailed(pipeLast)
    /\ pipeLast.ret < 0
    /\ requests[pipeLast.req].state = "new"
    /\ captureQueue # <<>> /\ pipeLast.req \notin OnCapture

(***************************************************************************)
(* More properties of the Stream (checked under Spec).                     *)
(***************************************************************************)
\* The cache entries createBuffers made that no mapBuffer has taken yet.
Seeded(cache) == {i \in 1..Len(cache) : cache[i].first = NoDmabufs}

\* C27: createBuffers(External, N) with N > 0 leaves a cache of exactly N
\* entries, entry i holding slot i - 1 under the empty descriptor set; the
\* mapBuffer calls that miss while such entries are left get the slots
\* 0, 1, ..., N - 1 in this order.
C27_CacheSeededInOrder ==
    [][/\ (Returned("createBuffers") /\ last'.n > 0 /\ memoryType_' = ExternalMemory) =>
             /\ Len(bufferPool_') = last'.n
             /\ bufferCache_' = [i \in 1..last'.n |->
                                    [first |-> NoDmabufs, second |-> i - 1]]
       /\ (Returned("mapBuffer") /\ ExternalEpoch /\ ~last'.hit
             /\ Seeded(bufferCache_) # {}) =>
             last'.ret = Len(bufferPool_) - Cardinality(Seeded(bufferCache_))
      ]_vars

\* C27 witness: the last of the MaxCount misses after
\* createBuffers(External, MaxCount) got the last slot.
C27_Witness ==
    /\ ExternalEpoch /\ Len(bufferPool_) = MaxCount
    /\ last.op = "mapBuffer" /\ ~last.hit /\ last.ret = MaxCount - 1
    /\ bufferCache_ = <<>>

(***************************************************************************)
(* More properties of the camera operations (checked under SpecCam).       *)
(***************************************************************************)
\* What the last configure() asked of device d: unicam is asked for the
\* sensor size only, the ISP output for the format unicam holds at the ISP
\* output size, the ISP capture for the stream configuration.
Asked(d) ==
    IF d = "unicam" THEN [deviceFormat["unicam"] EXCEPT !.size = SensorSize]
    ELSE IF d = "output" THEN [deviceFormat["unicam"] EXCEPT !.size = OutputSize]
    ELSE [size |-> Cfg.size, fourcc |-> Cfg.pixelFormat]

\* The setFormat calls of the last configure() on device d, by their result.
SetFormatOf(d, ok) ==
    {i \in 1..Len(pipeLast.log) :
        /\ pipeLast.log[i].dev = d /\ pipeLast.log[i].call = "setFormat"
        /\ pipeLast.log[i].ok = ok}

\* Device d applied exactly what the last configure() asked of it.
AppliedAsAsked(d) == SetFormatOf(d, TRUE) # {} /\ deviceFormat[d] = Asked(d)

\* The last configure() associated the stream with the configuration.
StreamSet == \E i \in 1..Len(pipeLast.log) : pipeLast.log[i].call = "setStream"

\* C28: configure() returns success, and associates the stream, only if
\* every device applied exactly the size and pixel format asked of it; when
\* a device applied another format than the one asked of it, configure()
\* returns -EINVAL and does not associate the stream.
C28_SuccessOnlyIfApplied ==
    (pipeLast.op = "configure" /\ pipeLast.ret # -EACCES) =>
       /\ (pipeLast.ret = 0 \/ StreamSet) => \A d \in Devices : AppliedAsAsked(d)
       /\ (\E d \in Devices : SetFormatOf(d, TRUE) # {} /\ ~AppliedAsAsked(d)) =>
             pipeLast.ret = -EINVAL /\ ~StreamSet

\* C29: in every state of a Stream every slot index in the mapping cache is
\* an index of the pool, and no mapBuffer call has touched a slot outside of
\* the pool.
C29_CacheIndexInPool ==
    /\ \A i \in 1..Len(bufferCache_) :
          ULess(bufferCache_[i].second, BufferPool_count(bufferPool_))
    /\ ~fault
    /\ last.op = "mapBuffer" => ~last.oob

C31_FailedStartLeavesNothing ==
    [][(Ran("start") /\ pipeLast'.ret # 0) =>
          /\ \A d \in Devices : ~streaming'[d]
          /\ rawBuffers_' = {}
          /\ unicamQueue' = unicamQueue
      ]_vars

C33_FreeReleasesEverything ==
    pipeLast.op = "freeFrameBuffers" =>
       /\ bayerBuffers_ = <<>>
       /\ \A d \in Devices :
             deviceBuffers[d] =>
                \E i \in 1..Len(pipeLast.log) :
                   pipeLast.log[i].dev = d /\ ~pipeLast.log[i].ok

====
